---- MODULE Spec2Model ----
(***************************************************************************)
(* Model of the AUR repository builder (src/go-builder/main.go).           *)
(*                                                                         *)
(* Strings that the program splits or matches on "-" (package names,       *)
(* versions, database directory names, artifact file names) are sequences  *)
(* of their dash-separated segments; the empty string is <<>>.  One run of *)
(* main() is a chain of steps selected by pc; the file system (output      *)
(* directory, repository database, clone cache) persists between runs.     *)
(***************************************************************************)
EXTENDS Integers, Sequences, FiniteSets, TLC

\* ------------------------------------------------------------------ bounds
MaxRuns == 2
MaxPkgs == 2
MaxIncidents == 2   \* failures of the environment during the runs and changes to it between them

\* ------------------------------------------------------------- the domain
Foo == <<"foo">>
FooBin == <<"foo", "bin">>
FooDocs == <<"foo", "docs">>
Stale == <<"old">>
\* the packages a config can declare; foo is a split package whose recipe also
\* builds foo-docs
PkgNames == {Foo, FooBin}
Members(pkgName) == IF pkgName = Foo THEN {Foo, FooDocs} ELSE {pkgName}
V1 == <<"1", "1">>
V2 == <<"2", "1">>
Versions == {V1, V2}
Empty == <<>>
ArchSuffix == <<"x86_64.pkg.tar.zst">>

PkgSpecs == [name : PkgNames, force : BOOLEAN]
Configs ==
    {c \in UNION {[1..n -> PkgSpecs] : n \in 0..MaxPkgs} :
        \A i, j \in DOMAIN c : i # j => c[i].name # c[j].name}

\* A built artifact: the package it holds; its file name follows from it.
Artifacts == [name : PkgNames \cup {FooDocs}, ver : Versions]
FileName(f) == f.name \o f.ver \o ArchSuffix
DirName(e) == e.name \o e.ver

\* ---------------------------------------------------------- string helpers
\* strings.HasPrefix(s, p + "-") on segment sequences
HasPrefix(s, p) == Len(s) > Len(p) /\ SubSeq(s, 1, Len(p)) = p
\* strings.TrimPrefix(s, p + "-")
TrimPrefix(s, p) == SubSeq(s, Len(p) + 1, Len(s))
\* strings.Count(s, "-")
DashCount(s) == IF Len(s) = 0 THEN 0 ELSE Len(s) - 1

\* The tar headers of a database: a directory header and its desc file per entry.
RECURSIVE Headers(_)
Headers(entries) ==
    IF entries = <<>> THEN <<>>
    ELSE << <<DirName(Head(entries)), "">>, <<DirName(Head(entries)), "desc">> >>
            \o Headers(Tail(entries))

RECURSIVE ScanHeaders(_, _, _)
ScanHeaders(hs, k, pkgName) ==
    IF k > Len(hs) THEN Empty
    ELSE LET parts == hs[k]
             dirName == parts[1]
         IN  IF /\ Len(parts) >= 2
                /\ parts[2] = "desc"
                /\ HasPrefix(dirName, pkgName)
                /\ DashCount(TrimPrefix(dirName, pkgName)) >= 1
             THEN TrimPrefix(dirName, pkgName)
             ELSE ScanHeaders(hs, k + 1, pkgName)

\* GlobMatches with a pattern that lacks the "-*.pkg.tar.*" tail
GlobMatchesNoWildcard(files, pkgName, ver) ==
    {f \in files : FileName(f) = pkgName \o ver}

\* filepath.Glob("<name>-<repoVersion>-*.pkg.tar.*") over the output directory
GlobMatches(files, pkgName, ver) ==
    {f \in files : HasPrefix(FileName(f), pkgName \o ver)}

\* os.ReadDir order of the artifact files of a directory (sorted by file name;
\* a digit sorts before a letter, so foo-<ver> precedes foo-bin-<ver>)
Rank(f) == (IF f.name = Foo THEN 0 ELSE IF f.name = FooBin THEN 2 ELSE 4)
              + (IF f.ver = V1 THEN 0 ELSE 1)
RECURSIVE SortedFiles(_)
SortedFiles(S) ==
    IF S = {} THEN <<>>
    ELSE LET m == CHOOSE f \in S : \A g \in S : Rank(f) <= Rank(g)
         IN  <<m>> \o SortedFiles(S \ {m})

Range(s) == {s[k] : k \in DOMAIN s}

\* ---------------------------------------------------------------- the state
VARIABLES
    cfg,            \* config.yml: the declared packages (name, force)
    aurVer,         \* the version of each package's recipe in the AUR
    dirs,           \* which of build/x86_64 and aur exist
    outFiles,       \* artifact files in build/x86_64
    db,             \* entries of <repo>.db.tar.gz, in archive order
    dbExists,       \* the database archive exists
    lockFile,       \* <repo>.db.tar.gz.lck exists
    oldFiles,       \* some *.old backup file exists under build/x86_64
    aurClones,      \* directories under aur/
    workspace,      \* artifact files lying in each aur/<pkg> directory
    landing,        \* build/index.html: whether it exists, and its package rows
    pc,             \* the step main() is at
    remoteVersions, \* map name -> upstream version ("" when missing)
    idx,            \* position of the per-package loop in cfg
    repoVersion, aurVersion, needsBuild,
    skippedCount, failedCount, builtPkgFiles,
    exitCode,       \* -1 while running
    summary,        \* the counts the summary prints
    run,            \* number of runs started
    obs,            \* per-run observations (see InitObs)
    hist            \* what the next run needs to know of the previous one

fsVars == <<dirs, outFiles, db, dbExists, lockFile, oldFiles, aurClones,
            workspace, landing>>
loopVars == <<remoteVersions, idx, repoVersion, aurVersion, needsBuild,
              skippedCount, failedCount, builtPkgFiles>>
vars == <<cfg, aurVer, dirs, outFiles, db, dbExists, lockFile, oldFiles,
          aurClones, workspace, landing, pc, remoteVersions, idx, repoVersion,
          aurVersion, needsBuild, skippedCount, failedCount, builtPkgFiles,
          exitCode, summary, run, obs, hist>>

N == Len(cfg)
Declared == {cfg[k].name : k \in 1..N}

\* getRepoVersion: version of a package as read from the database archive
getRepoVersion(pkgName) ==
    IF ~dbExists THEN Empty ELSE ScanHeaders(Headers(db), 1, pkgName)

\* ----------------------------------------------------------- observations
\* What happened during the current run, recorded as the steps are taken.
InitObs ==
    [decision   |-> [k \in 1..N |-> "none"],   \* "Skip" or "Build"
     outcome    |-> [k \in 1..N |-> "none"],   \* "Skip", "Built" or "Failed"
     failedAt   |-> [k \in 1..N |-> "none"],   \* "fetch", "build" or "noFiles"
     fetches    |-> [k \in 1..N |-> 0],        \* calls of cloneAURPackage
     builds     |-> [k \in 1..N |-> 0],        \* calls of buildPackage
     order      |-> <<>>,                      \* loop positions, as processed
     lookups    |-> 0,                         \* upstream requests issued
     lookupFailed |-> FALSE,
     repoAdds   |-> 0,                         \* invocations of repo-add
     dbResult   |-> "none",                    \* "ok" or "failed"
     dbSteps    |-> <<>>,                      \* what the database update did, in order
     copyErrors |-> FALSE,                     \* the copy of an artifact failed
     copied     |-> {},                        \* the files copyFile put in the output directory
     unremoved  |-> {},                        \* copied files whose os.Remove failed
     touched    |-> {},                        \* kinds of side effect so far
     setup      |-> [makepkg |-> "unread", config |-> "unread",  \* what setup found
                     repoName |-> "unread", repoURL |-> "unread",
                     projectURL |-> "unread"],
     fsAtStart  |-> <<>>,                      \* the file system when the run began
     failStage  |-> "none",                    \* where a fatal exit happened
     faults     |-> 0]                         \* environment failures in this run

Touch(what) == obs.touched \cup {what}

\* the outcomes the environment may choose from, given the failures so far
Outcomes(good, bad) ==
    IF obs.faults + hist.incidents < MaxIncidents THEN good \cup bad ELSE good
FaultIf(b) == IF b THEN obs.faults + 1 ELSE obs.faults

\* What is remembered of the previous run and of the time since it ended.
InitHist ==
    [ran     |-> FALSE,   \* a previous run got past setup
     clean   |-> FALSE,   \* nothing failed in the previous run
     remote  |-> [n \in PkgNames |-> Empty],  \* the upstream versions a clean run saw
     orphans |-> {},      \* artifacts copied by a run whose database update failed
     incidents |-> 0,     \* failures in earlier runs and changes between runs so far
     changed |-> FALSE]   \* a file was removed or a release made since that run

Init ==
    /\ cfg \in Configs
    /\ aurVer = [n \in PkgNames |-> V1]
    /\ dirs = {}
    /\ outFiles = {}
    /\ db = <<>>
    /\ dbExists = FALSE
    /\ lockFile = FALSE
    /\ oldFiles = FALSE
    /\ aurClones = {Stale}
    /\ workspace = [n \in PkgNames |-> {}]
    /\ landing = [exists |-> FALSE, rows |-> <<>>]
    /\ pc = "idle"
    /\ remoteVersions = [n \in PkgNames |-> Empty]
    /\ idx = 0
    /\ repoVersion = Empty
    /\ aurVersion = Empty
    /\ needsBuild = FALSE
    /\ skippedCount = 0
    /\ failedCount = 0
    /\ builtPkgFiles = <<>>
    /\ exitCode = -1
    /\ summary = [built |-> 0, skipped |-> 0, failed |-> 0]
    /\ run = 0
    /\ obs = InitObs
    /\ hist = InitHist

\* --------------------------------------------------------------- the steps
\* A new invocation of the builder: main()'s locals start at their zero values.
StartRun ==
    /\ pc = "idle"
    /\ run < MaxRuns
    /\ run' = run + 1
    /\ pc' = "checkDeps"
    /\ remoteVersions' = [n \in PkgNames |-> Empty]
    /\ idx' = 0
    /\ repoVersion' = Empty
    /\ aurVersion' = Empty
    /\ needsBuild' = FALSE
    /\ skippedCount' = 0
    /\ failedCount' = 0
    /\ builtPkgFiles' = <<>>
    /\ exitCode' = -1
    /\ summary' = [built |-> 0, skipped |-> 0, failed |-> 0]
    /\ obs' = [InitObs EXCEPT !.fsAtStart = fsVars]
    /\ UNCHANGED <<cfg, aurVer, fsVars, hist>>

\* os.Exit(1) on a fatal error
Die(stage, seen) ==
    /\ pc' = "done"
    /\ exitCode' = 1
    /\ obs' = [obs EXCEPT !.failStage = stage, !.setup = seen]

\* exec.LookPath("makepkg")
CheckDeps ==
    /\ pc = "checkDeps"
    /\ \E hasMakepkg \in BOOLEAN :
          LET seen == [obs.setup EXCEPT
                          !.makepkg = IF hasMakepkg THEN "found" ELSE "missing"]
          IN  IF ~hasMakepkg THEN Die("deps", seen)
              ELSE /\ pc' = "loadConfig"
                   /\ obs' = [obs EXCEPT !.setup = seen]
                   /\ UNCHANGED exitCode
    /\ UNCHANGED <<cfg, aurVer, fsVars, loopVars, summary, run, hist>>

\* os.Stat(config.yml) and loadConfig
LoadConfig ==
    /\ pc = "loadConfig"
    /\ \E file \in {"missing", "unreadable", "malformed", "ok"} :
          LET seen == [obs.setup EXCEPT !.config = file]
          IN  IF file = "missing" THEN Die("config", seen)
              ELSE IF file # "ok" THEN Die("config", seen)
              ELSE /\ pc' = "validate"
                   /\ obs' = [obs EXCEPT !.setup = seen]
                   /\ UNCHANGED exitCode
    /\ UNCHANGED <<cfg, aurVer, fsVars, loopVars, summary, run, hist>>

\* ValidateMeta without the test of meta.repo-url
ValidateMetaNoURL ==
    /\ pc = "validate"
    /\ \E meta \in [repoName : BOOLEAN, repoURL : BOOLEAN, projectURL : BOOLEAN] :
          LET seen == [obs.setup EXCEPT
                          !.repoName = IF meta.repoName THEN "set" ELSE "empty",
                          !.repoURL = IF meta.repoURL THEN "set" ELSE "empty",
                          !.projectURL = IF meta.projectURL THEN "set" ELSE "empty"]
          IN  IF ~meta.repoName THEN Die("meta", seen)
              ELSE IF ~meta.projectURL THEN Die("meta", seen)
              ELSE /\ pc' = "mkdirs"
                   /\ obs' = [obs EXCEPT !.setup = seen]
                   /\ UNCHANGED exitCode
    /\ UNCHANGED <<cfg, aurVer, fsVars, loopVars, summary, run, hist>>

\* the three required meta fields; TRUE stands for a non-empty value
ValidateMeta ==
    /\ pc = "validate"
    /\ \E meta \in [repoName : BOOLEAN, repoURL : BOOLEAN, projectURL : BOOLEAN] :
          LET seen == [obs.setup EXCEPT
                          !.repoName = IF meta.repoName THEN "set" ELSE "empty",
                          !.repoURL = IF meta.repoURL THEN "set" ELSE "empty",
                          !.projectURL = IF meta.projectURL THEN "set" ELSE "empty"]
          IN  IF ~meta.repoName THEN Die("meta", seen)
              ELSE IF ~meta.repoURL THEN Die("meta", seen)
              ELSE IF ~meta.projectURL THEN Die("meta", seen)
              ELSE /\ pc' = "mkdirs"
                   /\ obs' = [obs EXCEPT !.setup = seen]
                   /\ UNCHANGED exitCode
    /\ UNCHANGED <<cfg, aurVer, fsVars, loopVars, summary, run, hist>>

\* os.MkdirAll(build/x86_64) then os.MkdirAll(aur)
CreateDirs ==
    /\ pc = "mkdirs"
    /\ \E okBuild \in BOOLEAN, okAur \in BOOLEAN :
          IF ~okBuild /\ "build" \notin dirs
          THEN Die("mkdir", obs.setup) /\ UNCHANGED dirs
          ELSE IF ~okAur /\ "aur" \notin dirs
          THEN /\ dirs' = dirs \cup {"build"}
               /\ pc' = "done"
               /\ exitCode' = 1
               /\ obs' = [obs EXCEPT !.failStage = "mkdir", !.touched = Touch("mkdir")]
          ELSE /\ dirs' = dirs \cup {"build", "aur"}
               /\ pc' = "fetchVersions"
               /\ obs' = [obs EXCEPT !.touched = Touch("mkdir")]
               /\ UNCHANGED exitCode
    /\ UNCHANGED <<cfg, aurVer, outFiles, db, dbExists, lockFile, oldFiles,
                   aurClones, workspace, landing, loopVars, summary, run, hist>>

\* FetchVersions that gives up when the lookup fails
FetchVersionsAbort ==
    /\ pc = "fetchVersions"
    /\ IF N = 0
       THEN /\ remoteVersions' = [n \in PkgNames |-> Empty]
            /\ obs' = obs
            /\ idx' = 1
            /\ pc' = "updateDb"
            /\ UNCHANGED exitCode
       ELSE \E reply \in Outcomes({"ok"}, {"transportError", "badStatus", "badJSON",
                                          "incomplete"}) :
            \E known \in SUBSET Declared :
              /\ reply = "ok" => known = Declared
              /\ reply = "incomplete" => known # Declared
              /\ reply \notin {"ok", "incomplete"} => known = {}
              /\ remoteVersions' =
                    [n \in PkgNames |-> IF n \in known THEN aurVer[n] ELSE Empty]
              /\ idx' = 1
              /\ IF reply \in {"ok", "incomplete"}
                 THEN /\ pc' = "decide"
                      /\ UNCHANGED exitCode
                      /\ obs' = [obs EXCEPT !.lookups = @ + 1,
                                            !.faults = FaultIf(reply # "ok"),
                                            !.touched = Touch("lookup")]
                 ELSE /\ pc' = "done"
                      /\ exitCode' = 1
                      /\ obs' = [obs EXCEPT !.lookups = @ + 1,
                                            !.lookupFailed = TRUE,
                                            !.failStage = "lookup",
                                            !.faults = @ + 1,
                                            !.touched = Touch("lookup")]
    /\ UNCHANGED <<cfg, aurVer, fsVars, repoVersion, aurVersion, needsBuild,
                   skippedCount, failedCount, builtPkgFiles, summary, run, hist>>

\* fetchAURVersions and the fallback to an empty map
FetchVersions ==
    /\ pc = "fetchVersions"
    /\ IF N = 0
       THEN /\ remoteVersions' = [n \in PkgNames |-> Empty]
            /\ obs' = obs
       ELSE \E reply \in Outcomes({"ok"}, {"transportError", "badStatus", "badJSON",
                                          "incomplete"}) :
            \E known \in SUBSET Declared :
              /\ reply = "ok" => known = Declared
              /\ reply = "incomplete" => known # Declared
              /\ reply \notin {"ok", "incomplete"} => known = {}
              /\ remoteVersions' =
                    [n \in PkgNames |-> IF n \in known THEN aurVer[n] ELSE Empty]
              /\ obs' = [obs EXCEPT !.lookups = @ + 1,
                                    !.lookupFailed = (reply \notin {"ok", "incomplete"}),
                                    !.faults = FaultIf(reply # "ok"),
                                    !.touched = Touch("lookup")]
    /\ idx' = 1
    /\ pc' = IF N = 0 THEN "updateDb" ELSE "decide"
    /\ UNCHANGED <<cfg, aurVer, fsVars, repoVersion, aurVersion, needsBuild,
                   skippedCount, failedCount, builtPkgFiles, exitCode, summary, run, hist>>

\* DecisionBranch with the force flag tested before anything else
DecisionBranchForceFirst(aurV, repoV, force, matches) ==
    IF force THEN "force"
    ELSE IF aurV = Empty
    THEN (IF repoV # Empty THEN "keepRepoVersion" ELSE "notInAUR")
    ELSE IF repoV = Empty THEN "notInRepo"
    ELSE IF repoV # aurV THEN "mismatch"
    ELSE IF matches = {} THEN "fileMissing"
    ELSE "upToDate"

\* DecisionBranch without the branch for the force flag
DecisionBranchNoForce(aurV, repoV, force, matches) ==
    IF aurV = Empty
    THEN (IF repoV # Empty THEN "keepRepoVersion" ELSE "notInAUR")
    ELSE IF repoV = Empty THEN "notInRepo"
    ELSE IF repoV # aurV THEN "mismatch"
    ELSE IF matches = {} THEN "fileMissing"
    ELSE "upToDate"

\* The branch of the if/else-if chain that handles a package.
DecisionBranch(aurV, repoV, force, matches) ==
    IF aurV = Empty
    THEN (IF repoV # Empty THEN "keepRepoVersion" ELSE "notInAUR")
    ELSE IF repoV = Empty THEN "notInRepo"
    ELSE IF repoV # aurV THEN "mismatch"
    ELSE IF force THEN "force"
    ELSE IF matches = {} THEN "fileMissing"
    ELSE "upToDate"

\* the branches that set needsBuild = true
BuildBranches == {"notInAUR", "notInRepo", "mismatch", "force", "fileMissing"}
\* the branch that increments skippedCount
CountedSkipBranches == {"upToDate"}

\* the loop moves on to the next declared package, or ends
NextPackage ==
    /\ idx' = idx + 1
    /\ pc' = IF idx < N THEN "decide" ELSE "updateDb"

\* top of the loop body: read both versions and decide
Decide ==
    /\ pc = "decide"
    /\ LET pkg == cfg[idx]
           rv == getRepoVersion(pkg.name)
           av == remoteVersions[pkg.name]
           branch == DecisionBranch(av, rv, pkg.force,
                                    GlobMatches(outFiles, pkg.name, rv))
           build == branch \in BuildBranches
       IN  /\ repoVersion' = rv
           /\ aurVersion' = av
           /\ needsBuild' = build
           /\ skippedCount' = IF branch \in CountedSkipBranches
                              THEN skippedCount + 1 ELSE skippedCount
           /\ obs' = [obs EXCEPT
                        !.decision[idx] = IF build THEN "Build" ELSE "Skip",
                        !.outcome[idx] = IF build THEN "none" ELSE "Skip",
                        !.order = Append(@, idx)]
           /\ IF build THEN pc' = "clone" /\ idx' = idx ELSE NextPackage
    /\ UNCHANGED <<cfg, aurVer, fsVars, remoteVersions, failedCount,
                   builtPkgFiles, exitCode, summary, run, hist>>

\* Clone without the continue after a failed fetch
CloneNoContinue ==
    /\ pc = "clone"
    /\ \E git \in Outcomes({"ok"}, {"gitFailed", "noPKGBUILD"}) :
          /\ aurClones' = IF git = "gitFailed" THEN aurClones
                          ELSE aurClones \cup {cfg[idx].name}
          /\ pc' = "build"
          /\ idx' = idx
          /\ IF git = "ok"
             THEN /\ obs' = [obs EXCEPT !.fetches[idx] = @ + 1,
                                        !.touched = Touch("fetch")]
                  /\ UNCHANGED failedCount
             ELSE /\ failedCount' = failedCount + 1
                  /\ obs' = [obs EXCEPT !.fetches[idx] = @ + 1,
                                        !.outcome[idx] = "Failed",
                                        !.failedAt[idx] = "fetch",
                                        !.faults = @ + 1,
                                        !.touched = Touch("fetch")]
    /\ UNCHANGED <<cfg, aurVer, dirs, outFiles, db, dbExists, lockFile, oldFiles,
                   workspace, landing, remoteVersions, repoVersion, aurVersion,
                   needsBuild, skippedCount, builtPkgFiles, exitCode, summary, run, hist>>

\* cloneAURPackage, and main's handling of its error
Clone ==
    /\ pc = "clone"
    /\ \E git \in Outcomes({"ok"}, {"gitFailed", "noPKGBUILD"}) :
          /\ aurClones' = IF git = "gitFailed" THEN aurClones
                          ELSE aurClones \cup {cfg[idx].name}
          /\ IF git = "ok"
             THEN /\ pc' = "build"
                  /\ obs' = [obs EXCEPT !.fetches[idx] = @ + 1,
                                        !.touched = Touch("fetch")]
                  /\ UNCHANGED <<idx, failedCount>>
             ELSE /\ failedCount' = failedCount + 1
                  /\ obs' = [obs EXCEPT !.fetches[idx] = @ + 1,
                                        !.outcome[idx] = "Failed",
                                        !.failedAt[idx] = "fetch",
                                        !.faults = @ + 1,
                                        !.touched = Touch("fetch")]
                  /\ NextPackage
    /\ UNCHANGED <<cfg, aurVer, dirs, outFiles, db, dbExists, lockFile, oldFiles,
                   workspace, landing, remoteVersions, repoVersion, aurVersion,
                   needsBuild, skippedCount, builtPkgFiles, exitCode, summary, run, hist>>

\* what makepkg leaves in the clone directory of a package: the members of the
\* recipe at the recipe's version
Produced(pkgName) ==
    {[name |-> n, ver |-> aurVer[pkgName]] : n \in Members(pkgName)}

\* the copy loop without the continue after a failed copy
CopiedFilesNoContinue(pkgFiles, res, k) == pkgFiles

\* the copy loop: the files whose copy succeeded, in order
RECURSIVE CopiedFiles(_, _, _)
CopiedFiles(pkgFiles, res, k) ==
    IF k > Len(pkgFiles) THEN <<>>
    ELSE (IF res[k] = "copyFailed" THEN <<>> ELSE <<pkgFiles[k]>>)
            \o CopiedFiles(pkgFiles, res, k + 1)

\* the copy loop: the files still in the clone directory afterwards
LeftInWorkspace(pkgFiles, res) ==
    {pkgFiles[k] : k \in {j \in DOMAIN pkgFiles : res[j] # "ok"}}

Mishaps(res) == Cardinality({k \in DOMAIN res : res[k] # "ok"})

\* buildPackage, and main's handling of its result
Build ==
    /\ pc = "build"
    /\ LET name == cfg[idx].name
           failed(why) ==
                     /\ failedCount' = failedCount + 1
                     /\ obs' = [obs EXCEPT !.builds[idx] = @ + 1,
                                           !.outcome[idx] = "Failed",
                                           !.failedAt[idx] = why,
                                           !.faults = @ + 1,
                                           !.touched = Touch("build")]
                     /\ UNCHANGED <<builtPkgFiles, outFiles, workspace>>
       IN  \E tools \in Outcomes({"ok"}, {"depsFailed", "makepkgFailed",
                                         "readDirFailed", "nothingBuilt"}) :
             IF tools \in {"depsFailed", "makepkgFailed", "readDirFailed"}
             THEN failed("build")
             ELSE LET made == IF tools = "ok" THEN Produced(name) ELSE {}
                      inDir == workspace[name] \cup made
                      pkgFiles == SortedFiles(inDir)
                  IN  IF Len(pkgFiles) = 0
                      THEN failed("noFiles")
                      ELSE \E res \in [DOMAIN pkgFiles ->
                                         {"copyFailed", "ok", "removeFailed"}] :
                           LET copiedFiles == CopiedFiles(pkgFiles, res, 1)
                               faults == FaultIf(tools # "ok") + Mishaps(res)
                           IN  /\ faults + hist.incidents <= MaxIncidents
                               /\ outFiles' = outFiles \cup Range(copiedFiles)
                               /\ workspace' = [workspace EXCEPT ![name] =
                                                  LeftInWorkspace(pkgFiles, res)]
                               /\ builtPkgFiles' = builtPkgFiles \o copiedFiles
                               /\ obs' = [obs EXCEPT !.builds[idx] = @ + 1,
                                                     !.outcome[idx] = "Built",
                                                     !.copyErrors =
                                                        @ \/ \E k \in DOMAIN res :
                                                                res[k] = "copyFailed",
                                                     !.copied = @ \cup
                                                        {pkgFiles[k] : k \in
                                                           {j \in DOMAIN res :
                                                              res[j] # "copyFailed"}},
                                                     !.unremoved = @ \cup
                                                        {pkgFiles[k] : k \in
                                                           {j \in DOMAIN res :
                                                              res[j] = "removeFailed"}},
                                                     !.faults = faults,
                                                     !.touched = Touch("build")]
                               /\ UNCHANGED failedCount
    /\ NextPackage
    /\ UNCHANGED <<cfg, aurVer, dirs, db, dbExists, lockFile, oldFiles, aurClones,
                   landing, remoteVersions, repoVersion, aurVersion, needsBuild,
                   skippedCount, exitCode, summary, run, hist>>

\* the lock file with the stat and os.Remove of the stale lock left out
StaleLockKept(lock) == lock

\* the lock file after updateRepoDatabase's stat and os.Remove: a stale one is gone
StaleLockRemoved(lock) == FALSE

\* repo-add does not run while the database's lock file exists
RepoAddResult(tool, lock) == IF lock THEN "failed" ELSE tool

\* repo-add <db> <files...>: each file's package replaces the entry of that name
RECURSIVE AddEntries(_, _)
AddEntries(entries, packages) ==
    IF packages = <<>> THEN entries
    ELSE AddEntries({e \in entries : e.name # Head(packages).name}
                        \cup {Head(packages)}, Tail(packages))

\* updateRepoDatabase(packages); err is the error it returns
updateRepoDatabase(packages, err) ==
    IF Len(packages) = 0
    THEN /\ err = FALSE
         /\ UNCHANGED <<db, dbExists, lockFile, oldFiles>>
         /\ obs' = obs
    ELSE \E tool \in Outcomes({"ok"}, {"failed", "killed"}) :
         LET lockAtTool == StaleLockRemoved(lockFile)
             result == RepoAddResult(tool, lockAtTool)
             oldAfterTool == IF result = "ok" THEN oldFiles \/ dbExists ELSE oldFiles
             steps == (IF lockFile # lockAtTool THEN <<"removeLock">> ELSE <<>>)
                      \o <<"repoAdd">>
                      \o (IF result = "ok" THEN <<"removeOld">> ELSE <<>>)
         IN  /\ err = (result # "ok")
             /\ obs' = [obs EXCEPT !.repoAdds = @ + 1,
                                   !.dbResult = IF err THEN "failed" ELSE "ok",
                                   !.dbSteps = @ \o steps,
                                   !.faults = FaultIf(tool # "ok"),
                                   !.touched = Touch("db")]
             /\ lockFile' = (lockAtTool \/ result = "killed")
             /\ IF result = "ok"
                THEN /\ db' = SortedFiles(AddEntries(Range(db), packages))
                     /\ dbExists' = TRUE
                     /\ oldFiles' = FALSE      \* the walk removes every .old file
                ELSE /\ oldFiles' = oldAfterTool
                     /\ UNCHANGED <<db, dbExists>>

\* UpdateDb that runs repo-add whether or not anything was built
UpdateDbUnguarded ==
    /\ pc = "updateDb"
    /\ \E tool \in Outcomes({"ok"}, {"failed", "killed"}) :
         /\ obs' = [obs EXCEPT !.repoAdds = @ + 1,
                               !.dbResult = IF tool = "ok" THEN "ok" ELSE "failed",
                               !.faults = FaultIf(tool # "ok"),
                               !.touched = Touch("db")]
         /\ lockFile' = (tool = "killed")
         /\ IF tool = "ok"
            THEN /\ db' = SortedFiles(AddEntries(Range(db), builtPkgFiles))
                 /\ dbExists' = TRUE
                 /\ oldFiles' = FALSE
            ELSE UNCHANGED <<db, dbExists, oldFiles>>
    /\ pc' = "cleanup"
    /\ UNCHANGED <<cfg, aurVer, dirs, outFiles, aurClones, workspace, landing,
                   loopVars, exitCode, summary, run, hist>>

\* after the loop: update the database when something was built
UpdateDb ==
    /\ pc = "updateDb"
    /\ IF Len(builtPkgFiles) > 0
       THEN \E err \in BOOLEAN : updateRepoDatabase(builtPkgFiles, err)
       ELSE UNCHANGED <<db, dbExists, lockFile, oldFiles, obs>>
    /\ pc' = "cleanup"
    /\ UNCHANGED <<cfg, aurVer, dirs, outFiles, aurClones, workspace, landing,
                   loopVars, exitCode, summary, run, hist>>

\* cleanup: remove the clones of packages that are no longer declared
Cleanup ==
    /\ pc = "cleanup"
    /\ \E readable \in Outcomes({TRUE}, {FALSE}) :
          LET keep == IF readable THEN aurClones \cap Declared ELSE aurClones
          IN  /\ aurClones' = keep
              /\ workspace' = [n \in PkgNames |->
                                 IF n \in keep THEN workspace[n] ELSE {}]
              /\ obs' = [obs EXCEPT
                           !.faults = FaultIf(~readable),
                           !.touched = IF keep # aurClones THEN Touch("cleanup") ELSE @]
    /\ pc' = "finish"
    /\ UNCHANGED <<cfg, aurVer, dirs, outFiles, db, dbExists, lockFile, oldFiles,
                   landing, loopVars, exitCode, summary, run, hist>>

\* the rows generateLandingPage writes: the declared packages found in the database
RECURSIVE PackageRows(_)
PackageRows(k) ==
    IF k > N THEN <<>>
    ELSE (IF getRepoVersion(cfg[k].name) = Empty THEN <<>>
          ELSE << <<cfg[k].name, getRepoVersion(cfg[k].name)>> >>)
            \o PackageRows(k + 1)

\* ExitCode that tolerates one failed package
ExitCodeOffByOne(failed) == IF failed > 1 THEN 1 ELSE 0

\* the process exit code
ExitCode(failed) == IF failed > 0 THEN 1 ELSE 0

\* the summary, the landing page and the exit
Finish ==
    /\ pc = "finish"
    /\ summary' = [built |-> Len(builtPkgFiles), skipped |-> skippedCount,
                   failed |-> failedCount]
    /\ \E template \in Outcomes({TRUE}, {FALSE}) :
          /\ landing' = IF template THEN [exists |-> TRUE, rows |-> PackageRows(1)]
                        ELSE landing
          /\ obs' = [obs EXCEPT !.faults = FaultIf(~template)]
    /\ exitCode' = ExitCode(failedCount)
    /\ pc' = "done"
    /\ UNCHANGED <<cfg, aurVer, dirs, outFiles, db, dbExists, lockFile, oldFiles,
                   aurClones, workspace, loopVars, run, hist>>

\* ----------------------------------------------------------- environment
\* the process has exited: its memory is gone, the file system stays
EndRun ==
    /\ pc = "done"
    /\ pc' = "idle"
    /\ hist' = IF obs.failStage # "none" THEN hist
               ELSE LET clean == obs.faults = 0
                    IN  [ran     |-> TRUE,
                         clean   |-> clean,
                         remote  |-> IF clean THEN remoteVersions
                                     ELSE [n \in PkgNames |-> Empty],
                         orphans |-> IF obs.dbResult = "failed"
                                     THEN Range(builtPkgFiles) ELSE {},
                         incidents |-> hist.incidents + obs.faults,
                         changed |-> FALSE]
    /\ remoteVersions' = [n \in PkgNames |-> Empty]
    /\ idx' = 0
    /\ repoVersion' = Empty
    /\ aurVersion' = Empty
    /\ needsBuild' = FALSE
    /\ skippedCount' = 0
    /\ failedCount' = 0
    /\ builtPkgFiles' = <<>>
    /\ exitCode' = -1
    /\ summary' = [built |-> 0, skipped |-> 0, failed |-> 0]
    /\ obs' = InitObs
    /\ UNCHANGED <<cfg, aurVer, fsVars, run>>

\* between runs, a file is removed from the output directory
RemoveOutputFile ==
    /\ pc = "idle"
    /\ hist.incidents < MaxIncidents
    /\ \E f \in outFiles : outFiles' = outFiles \ {f}
    /\ hist' = [hist EXCEPT !.incidents = @ + 1, !.changed = TRUE]
    /\ UNCHANGED <<cfg, aurVer, dirs, db, dbExists, lockFile, oldFiles, aurClones,
                   workspace, landing, pc, loopVars, exitCode, summary, run, obs>>

\* between runs, something else (a crashed or manual repo-add) leaves a lock
\* file or a backup file behind
LeaveResidue ==
    /\ pc = "idle"
    /\ hist.incidents < MaxIncidents
    /\ dbExists
    /\ ~(lockFile /\ oldFiles)
    /\ lockFile' = TRUE
    /\ oldFiles' = TRUE
    /\ hist' = [hist EXCEPT !.incidents = @ + 1]
    /\ UNCHANGED <<cfg, aurVer, dirs, outFiles, db, dbExists, aurClones, workspace,
                   landing, pc, loopVars, exitCode, summary, run, obs>>

\* between runs, a declared package gets a new version upstream
UpstreamRelease ==
    /\ pc = "idle"
    /\ hist.incidents < MaxIncidents
    /\ \E n \in Declared :
          /\ aurVer[n] = V1
          /\ aurVer' = [aurVer EXCEPT ![n] = V2]
    /\ hist' = [hist EXCEPT !.incidents = @ + 1, !.changed = TRUE]
    /\ UNCHANGED <<cfg, fsVars, pc, loopVars, exitCode, summary, run, obs>>

Next ==
    \/ StartRun
    \/ CheckDeps
    \/ LoadConfig
    \/ ValidateMeta
    \/ CreateDirs
    \/ FetchVersions
    \/ Decide
    \/ Clone
    \/ Build
    \/ UpdateDb
    \/ Cleanup
    \/ Finish
    \/ EndRun
    \/ RemoveOutputFile
    \/ LeaveResidue
    \/ UpstreamRelease

Spec == Init /\ [][Next]_vars

\* ============================================================== properties
Last(s) == s[Len(s)]
\* the package the loop decided last, while its versions are still at hand
Current == cfg[Last(obs.order)]
Decided == obs.order # <<>>
PastSetup == obs.failStage = "none"
Ended == pc = "done" /\ PastSetup
Count(what) == Cardinality({k \in 1..N : obs.outcome[k] = what})

\* the decision table of the specification: the first rule that applies wins
TableDecision(upstreamKnown, localPresent, same, force, filePresent) ==
    CASE ~upstreamKnown /\ localPresent  -> "Skip"
      [] ~upstreamKnown /\ ~localPresent -> "Build"
      [] OTHER ->
            CASE ~localPresent -> "Build"
              [] OTHER ->
                    CASE ~same -> "Build"
                      [] OTHER ->
                            CASE force -> "Build"
                              [] OTHER -> IF ~filePresent THEN "Build" ELSE "Skip"

\* an artifact file <name>-<version>-* lies in the output directory
ArtifactPresent(pkgName, ver) ==
    \E f \in outFiles :
        /\ Len(FileName(f)) > Len(pkgName) + Len(ver)
        /\ SubSeq(FileName(f), 1, Len(pkgName) + Len(ver)) = pkgName \o ver

C4_ExitCodeReflectsFailures ==
    Ended =>
        /\ \A k \in 1..N : obs.outcome[k] \in {"Skip", "Built", "Failed"}
        /\ exitCode \in {0, 1}
        /\ (exitCode = 0) = (\A k \in 1..N : obs.outcome[k] \in {"Skip", "Built"})
        /\ (exitCode = 1) = (\E k \in 1..N : obs.outcome[k] = "Failed")

\* a run whose only failure was the database update
C4_Witness ==
    /\ Ended
    /\ obs.dbResult = "failed"
    /\ exitCode = 0
    /\ \E k \in 1..N : obs.outcome[k] = "Built"

\* C5: a package whose fetch or build fails (a build that leaves no package
\* file included) ends Failed and is counted once; the loop goes on to the
\* packages after it, in declaration order; fetch and build are each attempted
\* at most once per package, and a package whose fetch failed is never built.
C5_FailureContained ==
    /\ \A k \in 1..N :
          /\ obs.fetches[k] <= 1
          /\ obs.builds[k] <= 1
          /\ obs.failedAt[k] = "fetch" => obs.builds[k] = 0
          /\ obs.builds[k] = 1 => obs.fetches[k] = 1
          /\ (obs.failedAt[k] # "none") = (obs.outcome[k] = "Failed")
    /\ failedCount = Count("Failed")
    /\ obs.order = [k \in 1..Len(obs.order) |-> k]
    /\ (PastSetup /\ pc \in {"updateDb", "cleanup", "finish", "done"}) =>
          /\ Len(obs.order) = N
          /\ \A k \in 1..N : obs.outcome[k] # "none"

\* the first package's fetch failed and the second one was still built
C5_Witness ==
    /\ Ended
    /\ N = 2
    /\ obs.failedAt[1] = "fetch"
    /\ obs.outcome[2] = "Built"
    /\ failedCount = 1

\* C6: a failed upstream lookup does not end the run: every package is treated
\* as of unknown upstream version, so a package present in the local database
\* is skipped and a package absent from it is built, and the loop still visits
\* every declared package.
C6_LookupFailureDegrades ==
    obs.lookupFailed =>
        /\ PastSetup
        /\ \A n \in PkgNames : remoteVersions[n] = Empty
        /\ pc # "fetchVersions"
        /\ Decided =>
              /\ aurVersion = Empty
              /\ repoVersion # Empty => obs.decision[Last(obs.order)] = "Skip"
              /\ repoVersion = Empty => obs.decision[Last(obs.order)] = "Build"
        /\ pc \in {"updateDb", "cleanup", "finish", "done"} => Len(obs.order) = N

\* after a failed lookup one package was skipped and another was built
C6_Witness ==
    /\ Ended
    /\ obs.lookupFailed
    /\ N = 2
    /\ \E j, k \in 1..N : obs.decision[j] = "Skip" /\ obs.outcome[k] = "Built"

\* C7: the summary of a run that got past setup reports, as Built, Skipped and
\* Failed, the numbers of packages with those outcomes, and the three numbers
\* add up to the number of declared packages.
C7_SummaryMatchesOutcomes ==
    Ended =>
        /\ summary.built = Count("Built")
        /\ summary.skipped = Count("Skip")
        /\ summary.failed = Count("Failed")
        /\ summary.built + summary.skipped + summary.failed = N

\* the setup of the run found something it cannot work with
BadSetup ==
    \/ obs.setup.makepkg = "missing"
    \/ obs.setup.config \in {"missing", "unreadable", "malformed"}
    \/ "empty" \in {obs.setup.repoName, obs.setup.repoURL, obs.setup.projectURL}

\* C8: when makepkg is missing, the configuration file is missing, unreadable
\* or malformed, or one of the three identity settings is empty, the run ends
\* at once with exit code 1: no upstream lookup, no fetch, no build, no
\* database update, and the file system is as it was when the run started.
C8_SetupFailureStopsEarly ==
    BadSetup =>
        /\ pc = "done"
        /\ exitCode = 1
        /\ obs.failStage # "none"
        /\ fsVars = obs.fsAtStart
        /\ obs.lookups = 0 /\ obs.repoAdds = 0 /\ obs.touched = {}
        /\ obs.order = <<>>
        /\ \A k \in 1..N : obs.fetches[k] = 0 /\ obs.builds[k] = 0

\* a later run stopped on an empty identity setting over a populated repository
C8_Witness ==
    /\ BadSetup
    /\ obs.setup.repoURL = "empty"
    /\ obs.setup.repoName = "set" /\ obs.setup.projectURL = "set"
    /\ outFiles # {} /\ dbExists
    /\ N > 0

\* C9: artifacts that a run copied to the output directory but could not index
\* are in the database after the next run, provided that run's own database
\* update succeeded and nothing changed in between.
C9_OrphansIndexedNextRun ==
    (Ended /\ hist.orphans # {} /\ ~hist.changed /\ obs.dbResult = "ok") =>
        \A f \in hist.orphans : f \in Range(db)

\* C10: the database update happens at most once in a run, after the last
\* package, and only when the run placed at least one artifact; with nothing
\* built the database, its lock file and its backups are left untouched.
C10_IndexOnceOnlyWhenBuilt ==
    /\ [](/\ obs.repoAdds <= 1
          /\ obs.repoAdds = 1 =>
                /\ pc \in {"cleanup", "finish", "done"}
                /\ builtPkgFiles # <<>>
                /\ Len(obs.order) = N)
    /\ [][(pc = "updateDb" /\ builtPkgFiles = <<>>) =>
             /\ UNCHANGED <<db, dbExists, lockFile, oldFiles>>
             /\ obs'.repoAdds = 0
             /\ obs'.dbResult = "none"]_vars
    /\ [][obs'.repoAdds > obs.repoAdds =>
             (pc = "updateDb" /\ pc' = "cleanup")]_vars

\* nothing was built and the lock file and backups of an earlier update are
\* still there after the update step
C10_Witness ==
    /\ pc = "cleanup"
    /\ N > 0
    /\ builtPkgFiles = <<>>
    /\ obs.repoAdds = 0
    /\ lockFile /\ oldFiles

WorkspaceFiles == UNION {workspace[n] : n \in PkgNames}

\* every file handed to repo-add was copied into the output directory in this
\* run, by a package that ended Built; every file whose copy succeeded is handed
\* over, whatever happened to the other files of its package
IndexedWereCopied ==
    /\ Range(builtPkgFiles) = obs.copied
    /\ obs.copied \subseteq outFiles
    /\ \A f \in Range(builtPkgFiles) :
          \E k \in 1..N : /\ obs.outcome[k] = "Built"
                          /\ f.name \in Members(cfg[k].name)
    /\ \A k \in 1..N :
          obs.outcome[k] = "Failed" =>
             \A f \in Range(builtPkgFiles) : f.name \notin Members(cfg[k].name)

\* C12 as stated: the files handed to repo-add are the files copied in this run
\* by packages that were built, and the clone directory's copy of every copied
\* file is gone.
C12_IndexedCopiedAndRemoved ==
    /\ IndexedWereCopied
    /\ obs.copied \cap WorkspaceFiles = {}

\* C12 as amended: the files handed to repo-add are the files copied in this run
\* by packages that were built, a failed copy keeps only its own file out, an
\* update adds no entry but theirs, and the clone directory's copy of every
\* copied file is gone unless its removal failed.
C12_IndexedCopiedRemovedUnlessFailed ==
    /\ [](/\ IndexedWereCopied
          /\ (obs.copied \ obs.unremoved) \cap WorkspaceFiles = {}
          /\ obs.unremoved \subseteq obs.copied \cap WorkspaceFiles)
    /\ [][pc = "updateDb" =>
             Range(db') \subseteq Range(db) \cup obs.copied]_vars

\* the copy of foo failed, foo-docs was still copied and alone went into the
\* database
C12_Witness ==
    /\ pc = "cleanup"
    /\ obs.copyErrors
    /\ obs.dbResult = "ok"
    /\ builtPkgFiles = <<[name |-> FooDocs, ver |-> V1]>>
    /\ db = builtPkgFiles
    /\ [name |-> Foo, ver |-> V1] \in WorkspaceFiles
    /\ [name |-> FooDocs, ver |-> V1] \notin WorkspaceFiles

\* the version-release part of the first database entry whose directory name
\* starts with the package name and a dash; empty when there is no archive or
\* no such entry
VersionOfFirstEntry(pkgName) ==
    LET hits == {k \in DOMAIN db : HasPrefix(DirName(db[k]), pkgName)}
    IN  IF ~dbExists \/ hits = {} THEN Empty
        ELSE db[CHOOSE k \in hits : \A j \in hits : k <= j].ver

\* C13: for a database of <name>-<version>-<release>/desc entries, the version
\* the loop reads for a package is the <version>-<release> part of the first
\* entry whose name starts with the package name and a dash, and is empty when
\* the archive does not exist or has no such entry.
C13_InspectorReturnsVersionRelease ==
    [][pc = "decide" => repoVersion' = VersionOfFirstEntry(cfg[idx].name)]_vars


====
